---- MODULE Spec2Model ----
(***************************************************************************)
(* Model of examples/scripts/training.py: one run of the training script,  *)
(* from argument parsing to the call of the training pipeline.  The        *)
(* script is single-threaded; pc is the position of the run in the         *)
(* script, one action per statement (or per try block) of the script.      *)
(***************************************************************************)
EXTENDS Integers, Sequences, FiniteSets, TLC

VARIABLES
    argv,             \* the command line given to the script
    fs,               \* the files the run reads: train, eval, model_config, training_config
    pc,               \* position of the run in the script
    args,             \* the parsed arguments (line 53)
    Encoder_AE,       \* the three names bound by the imports of lines 57-73
    Encoder_VAE,
    Decoder_AE,
    train_data,       \* lines 77-78
    eval_data,        \* lines 79-80
    data_input_dim,   \* line 97
    model_config,     \* lines 102-108 (and the same in every model branch)
    encoder,          \* the encoder instance built for the model call
    decoder,          \* the decoder instance built for the model call
    model,            \* lines 110-114
    training_config,  \* line 230
    pipeline,         \* lines 232-235
    calls,            \* the invocations of the pipeline (lines 237-240)
    error,            \* the exception that ended the run, if any
    reads,            \* the file paths opened so far, in order
    log               \* what the logger emitted, in order

vars == <<argv, fs, pc, args, Encoder_AE, Encoder_VAE, Decoder_AE, train_data,
          eval_data, data_input_dim, model_config, encoder, decoder, model,
          training_config, pipeline, calls, error, reads, log>>

\* ------------------------------------------------------------------ bounds
\* Largest number of samples (first axis) of a stored array.
MaxN == 2

\* ------------------------------------------------------------- constants
\* Python's None, for the variables that hold objects.
None == [tag |-> "None"]
\* None where a path is expected (--model_config default, line 45).
NoPath == <<>>
\* None / absent where a shape tuple is expected.
NoDim == <<>>

\* choices of --dataset (line 29)
DatasetChoices == {"mnist", "cifar10", "celeba"}
\* choices of --model_name (line 39)
ModelChoices == {"ae", "vae", "beta_vae", "wae", "vamp", "hvae", "rhvae"}

\* The divisor of lines 78 and 80.
Scale == 255

\* ------------------------------------------------------------ arithmetic
\* A float is modelled by the exact rational <<numerator, denominator>>,
\* denominator > 0.
FracEq(a, b) == a[1] * b[2] = b[1] * a[2]
FracLeq(a, b) == a[1] * b[2] <= b[1] * a[2]
FracLess(a, b) == a[1] * b[2] < b[1] * a[2]

\* numpy true division of an integer by a float constant: v / d
TrueDiv(v, d) == <<v, d>>

\* ndarray.min() / ndarray.max() over a non-empty array
ArrayMin(a) == CHOOSE x \in {a.data[i] : i \in 1..Len(a.data)} :
                 \A i \in 1..Len(a.data) : FracLeq(x, a.data[i])
ArrayMax(a) == CHOOSE x \in {a.data[i] : i \in 1..Len(a.data)} :
                 \A i \in 1..Len(a.data) : FracLeq(a.data[i], x)

\* ------------------------------------------------------------------ input
\* Per-sample shapes (C, H, W) of the stored arrays.
SampleShapes == {<<1, 1, 1>>, <<1, 1, 2>>}

\* Raw stored values: below range, in range (ends and middle), above range.
RawVals == {-1, 0, 128, 255, 256}

\* The arrays of shape (N, C, H, W) with N <= MaxN, sample shape in shapes
\* and raw values in vals, stored flat.
Arrays(vals, shapes) ==
    UNION { { [kind |-> "array", shape |-> <<n>> \o s, data |-> d] :
                d \in [1..(n * s[1] * s[2] * s[3]) -> vals] } :
            n \in 0..MaxN, s \in shapes }

\* A .npz file that cannot be loaded: absent, without the key 'data', or
\* with content numpy cannot parse.
BadNpz == { [kind |-> k, shape |-> <<>>, data |-> <<>>] :
              k \in {"missing", "nokey", "corrupt"} }

\* A json configuration file: unparsable, with a field the schema does not
\* know, or valid (input_dim absent or given).
FileDims == {NoDim, <<1, 1, 1>>, <<3, 2, 2>>}
ModelConfigFiles ==
    { [kind |-> "malformed", input_dim |-> NoDim],
      [kind |-> "unknown_field", input_dim |-> NoDim] }
    \cup { [kind |-> "valid", input_dim |-> d] : d \in FileDims }
TrainingConfigFiles == { [kind |-> "malformed"], [kind |-> "valid"] }

ModelConfigPath == <<"model_config.json">>
TrainingConfigPath == <<"configs", "base_training_config.json">>

\* os.path.join(PATH, f'data/{dataset}', name), lines 78 and 80
DataPath(dataset, name) == <<"data", dataset, name>>

\* ------------------------------------------------------------------- Init
Unstarted ==
    /\ pc = "parse_args"
    /\ args = None
    /\ Encoder_AE = None /\ Encoder_VAE = None /\ Decoder_AE = None
    /\ train_data = None /\ eval_data = None
    /\ data_input_dim = NoDim
    /\ model_config = None
    /\ encoder = None /\ decoder = None /\ model = None
    /\ training_config = None
    /\ pipeline = None
    /\ calls = <<>>
    /\ error = None
    /\ reads = <<>>
    /\ log = <<>>

\* Every command line over every kind of file, the arrays filled with the
\* top raw value.
CliRuns ==
    /\ argv \in [dataset : DatasetChoices \cup {"svhn"},
                 model_name : ModelChoices,
                 model_config : {NoPath, ModelConfigPath},
                 training_config : {TrainingConfigPath}]
    /\ fs \in [train : BadNpz \cup Arrays({255}, SampleShapes),
               eval : BadNpz \cup Arrays({255}, SampleShapes),
               model_config : ModelConfigFiles,
               training_config : TrainingConfigFiles]
    /\ argv.model_config = NoPath =>
           fs.model_config = [kind |-> "valid", input_dim |-> NoDim]

\* One command line over arrays of every raw value.
PixelRuns ==
    /\ argv = [dataset |-> "mnist", model_name |-> "vae",
               model_config |-> NoPath, training_config |-> TrainingConfigPath]
    /\ fs \in [train : Arrays(RawVals, {<<1, 1, 1>>}),
               eval : Arrays(RawVals, {<<1, 1, 1>>}),
               model_config : {[kind |-> "valid", input_dim |-> NoDim]},
               training_config : {[kind |-> "valid"]}]

Init == Unstarted /\ (CliRuns \/ PixelRuns)

\* ---------------------------------------------------------------- helpers
\* An exception that ends the run.
Raise(e) ==
    /\ error' = e
    /\ pc' = "failed"

Exception(stage, type, cause, folder, files, path) ==
    [stage |-> stage, type |-> type, cause |-> cause, folder |-> folder,
     files |-> files, path |-> path]

\* ------------------------------------------------------------- parse_args
\* ParseArgs without the choices of --dataset: any token is accepted.
ParseArgs_AnyDataset ==
    /\ pc = "parse_args"
    /\ args' = argv
    /\ pc' = "select"
    /\ UNCHANGED <<argv, fs, Encoder_AE, Encoder_VAE, Decoder_AE, train_data,
                   eval_data, data_input_dim, model_config, encoder, decoder,
                   model, training_config, pipeline, calls, error, reads, log>>

\* Line 53 with the choices of line 29: argparse rejects a --dataset value
\* outside the choices and exits before main is called.  (--model_name is
\* drawn from its own choices, line 39.)
ParseArgs ==
    /\ pc = "parse_args"
    /\ IF argv.dataset \in DatasetChoices
       THEN /\ args' = argv
            /\ pc' = "select"
            /\ error' = error
       ELSE /\ Raise(Exception("parse_args", "ArgumentError", "invalid choice",
                               <<>>, {argv.dataset}, NoPath))
            /\ args' = args
    /\ UNCHANGED <<argv, fs, Encoder_AE, Encoder_VAE, Decoder_AE, train_data,
                   eval_data, data_input_dim, model_config, encoder, decoder,
                   model, training_config, pipeline, calls, reads, log>>

\* ---------------------------------------------------------- lines 57-73
\* The names the imports of the branch of args.dataset bind.
Benchmarks(dataset) ==
    CASE dataset = "mnist" ->
           [Encoder_AE |-> "Encoder_AE_MNIST", Encoder_VAE |-> "Encoder_VAE_MNIST",
            Decoder_AE |-> "Decoder_AE_MNIST"]
      [] dataset = "cifar10" ->
           [Encoder_AE |-> "Encoder_AE_CIFAR", Encoder_VAE |-> "Encoder_VAE_CIFAR",
            Decoder_AE |-> "Decoder_AE_CIFAR"]
      [] dataset = "celeba" ->
           [Encoder_AE |-> "Encoder_AE_CELEBA", Encoder_VAE |-> "Encoder_VAE_CELEBA",
            Decoder_AE |-> "Decoder_AE_CELEBA"]

Class(name) == [class |-> name]

\* SelectArchitectures with the imports left out: nothing is bound before the
\* data is loaded.
SelectArchitectures_Deferred ==
    /\ pc = "select"
    /\ pc' = "load_data"
    /\ UNCHANGED <<argv, fs, args, Encoder_AE, Encoder_VAE, Decoder_AE,
                   train_data, eval_data, data_input_dim, model_config, encoder,
                   decoder, model, training_config, pipeline, calls, error,
                   reads, log>>

\* The chain has no else: with a dataset none of the branches names, nothing
\* is imported and the three names stay unbound.
SelectArchitectures ==
    /\ pc = "select"
    /\ IF args.dataset \in {"mnist", "cifar10", "celeba"}
       THEN /\ Encoder_AE' = Class(Benchmarks(args.dataset).Encoder_AE)
            /\ Encoder_VAE' = Class(Benchmarks(args.dataset).Encoder_VAE)
            /\ Decoder_AE' = Class(Benchmarks(args.dataset).Decoder_AE)
       ELSE UNCHANGED <<Encoder_AE, Encoder_VAE, Decoder_AE>>
    /\ pc' = "load_data"
    /\ UNCHANGED <<argv, fs, args, train_data, eval_data, data_input_dim,
                   model_config, encoder, decoder, model, training_config,
                   pipeline, calls, error, reads, log>>

\* ---------------------------------------------------------- lines 75-88
\* Normalize with the values clamped to [0, 255] before the division.
Normalize_Clamped(file) ==
    [shape |-> file.shape,
     data |-> [i \in 1..Len(file.data) |->
                 TrueDiv(IF file.data[i] < 0 THEN 0
                         ELSE IF file.data[i] > Scale THEN Scale
                         ELSE file.data[i], Scale)]]

\* np.load(path)['data'] / 255.
Normalize(file) ==
    [shape |-> file.shape,
     data |-> [i \in 1..Len(file.data) |-> TrueDiv(file.data[i], Scale)]]

\* The exception np.load(path)['data'] raises on a file that does not load.
LoadFailure(file) ==
    CASE file.kind = "missing" -> "FileNotFoundError"
      [] file.kind = "nokey" -> "KeyError"
      [] file.kind = "corrupt" -> "ValueError"

\* DataLoadError without the cause and without the folder in its message.
DataLoadError_Bare(cause) ==
    Exception("load_data", "FileNotFoundError", "", <<"data">>,
              {"train_data.npz", "eval_data.npz"}, NoPath)

\* The exception of lines 82-88, raised from e.
DataLoadError(cause) ==
    Exception("load_data", "FileNotFoundError", cause, <<"data", args.dataset>>,
              {"train_data.npz", "eval_data.npz"}, NoPath)

LoadData ==
    /\ pc = "load_data"
    /\ log' = Append(log, [kind |-> "loading", dataset |-> args.dataset])
    /\ IF fs.train.kind # "array"
       THEN /\ reads' = Append(reads, DataPath(args.dataset, "train_data.npz"))
            /\ Raise(DataLoadError(LoadFailure(fs.train)))
            /\ UNCHANGED <<train_data, eval_data>>
       ELSE /\ train_data' = Normalize(fs.train)
            /\ reads' = reads \o <<DataPath(args.dataset, "train_data.npz"),
                                   DataPath(args.dataset, "eval_data.npz")>>
            /\ IF fs.eval.kind # "array"
               THEN /\ Raise(DataLoadError(LoadFailure(fs.eval)))
                    /\ UNCHANGED eval_data
               ELSE /\ eval_data' = Normalize(fs.eval)
                    /\ pc' = "report_data"
                    /\ error' = error
    /\ UNCHANGED <<argv, fs, args, Encoder_AE, Encoder_VAE, Decoder_AE,
                   data_input_dim, model_config, encoder, decoder, model,
                   training_config, pipeline, calls>>

\* ---------------------------------------------------------- lines 90-95
\* train_data.min() and the like raise ValueError on an array of size 0; the
\* f-string is evaluated before the logger is called.
Size(a) == Len(a.data)

Summary(split, a) ==
    [kind |-> "summary", split |-> split, shape |-> a.shape,
     min |-> ArrayMin(a), max |-> ArrayMax(a)]

ReportData ==
    /\ pc = "report_data"
    /\ IF Size(train_data) = 0
       THEN /\ log' = Append(log, [kind |-> "loaded"])
            /\ Raise(Exception("report_data", "ValueError", "zero-size array",
                               <<>>, {"train"}, NoPath))
       ELSE IF Size(eval_data) = 0
       THEN /\ log' = log \o <<[kind |-> "loaded"], Summary("train", train_data)>>
            /\ Raise(Exception("report_data", "ValueError", "zero-size array",
                               <<>>, {"eval"}, NoPath))
       ELSE /\ log' = log \o <<[kind |-> "loaded"], Summary("train", train_data),
                               Summary("eval", eval_data)>>
            /\ pc' = "input_dim"
            /\ error' = error
    /\ UNCHANGED <<argv, fs, args, Encoder_AE, Encoder_VAE, Decoder_AE,
                   train_data, eval_data, data_input_dim, model_config, encoder,
                   decoder, model, training_config, pipeline, calls, reads>>

\* -------------------------------------------------------------- line 97
\* DataInputDim taken from the eval array.
DataInputDim_FromEval == Tail(eval_data.shape)

\* tuple(train_data.shape[1:])
DataInputDim == Tail(train_data.shape)

DeriveInputDim ==
    /\ pc = "input_dim"
    /\ data_input_dim' = DataInputDim
    /\ pc' = "model_config"
    /\ UNCHANGED <<argv, fs, args, Encoder_AE, Encoder_VAE, Decoder_AE,
                   train_data, eval_data, model_config, encoder, decoder, model,
                   training_config, pipeline, calls, error, reads, log>>

\* --------------------------------------------------------- lines 99-216
\* Branch with the wae branch calling the variational encoder.
Branch_WaeVariational(model_name) ==
    CASE model_name = "ae" ->
           [model |-> "AE", config |-> "AEConfig", encoder |-> "Encoder_AE"]
      [] model_name = "wae" ->
           [model |-> "WAE_MMD", config |-> "WAE_MMD_Config", encoder |-> "Encoder_VAE"]
      [] model_name = "vae" ->
           [model |-> "VAE", config |-> "VAEConfig", encoder |-> "Encoder_VAE"]
      [] model_name = "vamp" ->
           [model |-> "VAMP", config |-> "VAMPConfig", encoder |-> "Encoder_VAE"]
      [] model_name = "beta_vae" ->
           [model |-> "BetaVAE", config |-> "BetaVAEConfig", encoder |-> "Encoder_VAE"]
      [] model_name = "hvae" ->
           [model |-> "HVAE", config |-> "HVAEConfig", encoder |-> "Encoder_VAE"]
      [] model_name = "rhvae" ->
           [model |-> "RHVAE", config |-> "RHVAEConfig", encoder |-> "Encoder_VAE"]

\* The branch of args.model_name: the model class, its configuration class
\* and which of the bound encoder names the branch calls.
Branch(model_name) ==
    CASE model_name = "ae" ->
           [model |-> "AE", config |-> "AEConfig", encoder |-> "Encoder_AE"]
      [] model_name = "vae" ->
           [model |-> "VAE", config |-> "VAEConfig", encoder |-> "Encoder_VAE"]
      [] model_name = "wae" ->
           [model |-> "WAE_MMD", config |-> "WAE_MMD_Config", encoder |-> "Encoder_AE"]
      [] model_name = "vamp" ->
           [model |-> "VAMP", config |-> "VAMPConfig", encoder |-> "Encoder_VAE"]
      [] model_name = "beta_vae" ->
           [model |-> "BetaVAE", config |-> "BetaVAEConfig", encoder |-> "Encoder_VAE"]
      [] model_name = "hvae" ->
           [model |-> "HVAE", config |-> "HVAEConfig", encoder |-> "Encoder_VAE"]
      [] model_name = "rhvae" ->
           [model |-> "RHVAE", config |-> "RHVAEConfig", encoder |-> "Encoder_VAE"]

\* XConfig(): the default configuration of a family.
DefaultConfig(cls) == [class |-> cls, input_dim |-> NoDim, source |-> NoPath]

\* XConfig.from_json_file(path): the configuration the file gives, fields
\* absent at their defaults; or a ConfigParseError naming the path and the
\* underlying cause.
from_json_file(cls, path, file) ==
    CASE file.kind = "valid" ->
           [ok |-> TRUE,
            value |-> [class |-> cls, input_dim |-> file.input_dim, source |-> path]]
      [] file.kind = "malformed" ->
           [ok |-> FALSE,
            value |-> Exception("model_config", "ConfigParseError",
                                "JSONDecodeError", <<>>, {}, path)]
      [] file.kind = "unknown_field" ->
           [ok |-> FALSE,
            value |-> Exception("model_config", "ConfigParseError",
                                "unrecognized field", <<>>, {}, path)]

\* ResolveModelConfig that falls back to the default configuration when the
\* file does not parse.
ResolveModelConfig_DefaultOnError ==
    /\ pc = "model_config"
    /\ IF args.model_config # NoPath
       THEN LET r == from_json_file(Branch(args.model_name).config,
                                    args.model_config, fs.model_config)
            IN /\ reads' = Append(reads, args.model_config)
               /\ model_config' =
                      IF r.ok THEN r.value
                              ELSE DefaultConfig(Branch(args.model_name).config)
       ELSE /\ model_config' = DefaultConfig(Branch(args.model_name).config)
            /\ reads' = reads
    /\ pc' = "set_input_dim"
    /\ UNCHANGED <<argv, fs, args, Encoder_AE, Encoder_VAE, Decoder_AE,
                   train_data, eval_data, data_input_dim, encoder, decoder,
                   model, training_config, pipeline, calls, error, log>>

\* if args.model_config is not None: ... else: ...   (lines 102-106)
ResolveModelConfig ==
    /\ pc = "model_config"
    /\ IF args.model_config # NoPath
       THEN LET r == from_json_file(Branch(args.model_name).config,
                                    args.model_config, fs.model_config)
            IN /\ reads' = Append(reads, args.model_config)
               /\ IF r.ok
                  THEN /\ model_config' = r.value
                       /\ pc' = "set_input_dim"
                       /\ error' = error
                  ELSE /\ Raise(r.value)
                       /\ model_config' = model_config
       ELSE /\ model_config' = DefaultConfig(Branch(args.model_name).config)
            /\ pc' = "set_input_dim"
            /\ UNCHANGED <<error, reads>>
    /\ UNCHANGED <<argv, fs, args, Encoder_AE, Encoder_VAE, Decoder_AE,
                   train_data, eval_data, data_input_dim, encoder, decoder,
                   model, training_config, pipeline, calls, log>>

\* SetInputDim that keeps an input_dim the file gave.
SetInputDim_KeepFile ==
    /\ pc = "set_input_dim"
    /\ model_config' = IF model_config.input_dim = NoDim
                       THEN [model_config EXCEPT !.input_dim = data_input_dim]
                       ELSE model_config
    /\ pc' = "encoder"
    /\ UNCHANGED <<argv, fs, args, Encoder_AE, Encoder_VAE, Decoder_AE,
                   train_data, eval_data, data_input_dim, encoder, decoder,
                   model, training_config, pipeline, calls, error, reads, log>>

\* model_config.input_dim = data_input_dim   (line 108)
SetInputDim ==
    /\ pc = "set_input_dim"
    /\ model_config' = [model_config EXCEPT !.input_dim = data_input_dim]
    /\ pc' = "encoder"
    /\ UNCHANGED <<argv, fs, args, Encoder_AE, Encoder_VAE, Decoder_AE,
                   train_data, eval_data, data_input_dim, encoder, decoder,
                   model, training_config, pipeline, calls, error, reads, log>>

\* The encoder name the branch calls, resolved to the class it is bound to.
EncoderClass ==
    IF Branch(args.model_name).encoder = "Encoder_AE" THEN Encoder_AE
                                                      ELSE Encoder_VAE

\* encoder=Encoder_XX(model_config)   (line 112); an unbound name raises
\* NameError, and the constructor is the library's and may raise.
BuildEncoder ==
    /\ pc = "encoder"
    /\ \E raised \in BOOLEAN :
         IF EncoderClass = None
         THEN /\ Raise(Exception("encoder", "NameError",
                                 Branch(args.model_name).encoder, <<>>, {}, NoPath))
              /\ encoder' = encoder
         ELSE IF raised
         THEN /\ Raise(Exception("encoder", "ConstructorError", EncoderClass.class,
                                 <<>>, {}, NoPath))
              /\ encoder' = encoder
         ELSE /\ encoder' = [class |-> EncoderClass.class, model_config |-> model_config]
              /\ pc' = "decoder"
              /\ error' = error
    /\ UNCHANGED <<argv, fs, args, Encoder_AE, Encoder_VAE, Decoder_AE,
                   train_data, eval_data, data_input_dim, model_config, decoder,
                   model, training_config, pipeline, calls, reads, log>>

\* decoder=Decoder_AE(model_config)   (line 113)
BuildDecoder ==
    /\ pc = "decoder"
    /\ \E raised \in BOOLEAN :
         IF raised
         THEN /\ Raise(Exception("decoder", "ConstructorError", Decoder_AE.class,
                                 <<>>, {}, NoPath))
              /\ decoder' = decoder
         ELSE /\ decoder' = [class |-> Decoder_AE.class, model_config |-> model_config]
              /\ pc' = "model"
              /\ error' = error
    /\ UNCHANGED <<argv, fs, args, Encoder_AE, Encoder_VAE, Decoder_AE,
                   train_data, eval_data, data_input_dim, model_config, encoder,
                   model, training_config, pipeline, calls, reads, log>>

\* model = X(model_config=model_config, encoder=..., decoder=...)
\* (lines 110-114)
BuildModel ==
    /\ pc = "model"
    /\ \E raised \in BOOLEAN :
         IF raised
         THEN /\ Raise(Exception("model", "ConstructorError",
                                 Branch(args.model_name).model, <<>>, {}, NoPath))
              /\ model' = model
         ELSE /\ model' = [class |-> Branch(args.model_name).model,
                           model_config |-> model_config,
                           encoder |-> encoder, decoder |-> decoder]
              /\ pc' = "report_params"
              /\ error' = error
    /\ UNCHANGED <<argv, fs, args, Encoder_AE, Encoder_VAE, Decoder_AE,
                   train_data, eval_data, data_input_dim, model_config, encoder,
                   decoder, training_config, pipeline, calls, reads, log>>

\* --------------------------------------------------------- lines 218-227
ReportParams ==
    /\ pc = "report_params"
    /\ log' = log \o <<[kind |-> "built", model |-> args.model_name],
                       [kind |-> "params", encoder |-> model.encoder.class,
                        decoder |-> model.decoder.class, total |-> model.class]>>
    /\ pc' = "training_config"
    /\ UNCHANGED <<argv, fs, args, Encoder_AE, Encoder_VAE, Decoder_AE,
                   train_data, eval_data, data_input_dim, model_config, encoder,
                   decoder, model, training_config, pipeline, calls, error, reads>>

\* -------------------------------------------------------------- line 230
\* LoadTrainingConfig that falls back to the defaults when the file fails.
LoadTrainingConfig_Fallback ==
    /\ pc = "training_config"
    /\ reads' = Append(reads, args.training_config)
    /\ training_config' =
           [class |-> "BaseTrainingConfig",
            source |-> IF fs.training_config.kind = "valid"
                       THEN args.training_config ELSE NoPath]
    /\ pc' = "pipeline"
    /\ UNCHANGED <<argv, fs, args, Encoder_AE, Encoder_VAE, Decoder_AE,
                   train_data, eval_data, data_input_dim, model_config, encoder,
                   decoder, model, pipeline, calls, error, log>>

\* BaseTrainingConfig.from_json_file(args.training_config)
LoadTrainingConfig ==
    /\ pc = "training_config"
    /\ reads' = Append(reads, args.training_config)
    /\ IF fs.training_config.kind = "valid"
       THEN /\ training_config' = [class |-> "BaseTrainingConfig",
                                   source |-> args.training_config]
            /\ pc' = "pipeline"
            /\ error' = error
       ELSE /\ Raise(Exception("training_config", "ConfigParseError",
                               "JSONDecodeError", <<>>, {}, args.training_config))
            /\ training_config' = training_config
    /\ UNCHANGED <<argv, fs, args, Encoder_AE, Encoder_VAE, Decoder_AE,
                   train_data, eval_data, data_input_dim, model_config, encoder,
                   decoder, model, pipeline, calls, log>>

\* --------------------------------------------------------- lines 232-235
CreatePipeline ==
    /\ pc = "pipeline"
    /\ pipeline' = [training_config |-> training_config, model |-> model]
    /\ pc' = "invoke"
    /\ UNCHANGED <<argv, fs, args, Encoder_AE, Encoder_VAE, Decoder_AE,
                   train_data, eval_data, data_input_dim, model_config, encoder,
                   decoder, model, training_config, calls, error, reads, log>>

\* --------------------------------------------------------- lines 237-240
\* One blocking call; the pipeline returns or raises, and the script does
\* nothing after it.
InvokePipeline ==
    /\ pc = "invoke"
    /\ calls' = Append(calls, [pipeline |-> pipeline, train_data |-> train_data,
                               eval_data |-> eval_data])
    /\ \E raised \in BOOLEAN :
         IF raised
         THEN Raise(Exception("invoke", "PipelineError", "TrainingPipeline",
                              <<>>, {}, NoPath))
         ELSE pc' = "done" /\ error' = error
    /\ UNCHANGED <<argv, fs, args, Encoder_AE, Encoder_VAE, Decoder_AE,
                   train_data, eval_data, data_input_dim, model_config, encoder,
                   decoder, model, training_config, pipeline, reads, log>>

\* ------------------------------------------------------------------- Next
Next ==
    \/ ParseArgs
    \/ SelectArchitectures
    \/ LoadData
    \/ ReportData
    \/ DeriveInputDim
    \/ ResolveModelConfig
    \/ SetInputDim
    \/ BuildEncoder
    \/ BuildDecoder
    \/ BuildModel
    \/ ReportParams
    \/ LoadTrainingConfig
    \/ CreatePipeline
    \/ InvokePipeline

Spec == Init /\ [][Next]_vars

\* ================================================================ claims
\* Positions of the run before a stage has finished.
BeforeLoaded == {"parse_args", "select", "load_data"}
BeforeResolved == BeforeLoaded \cup {"report_data", "input_dim", "model_config"}

\* The three names are bound.
RegistrySelected ==
    Encoder_AE # None /\ Encoder_VAE # None /\ Decoder_AE # None

\* Both arrays are loaded.
DataLoaded == train_data # None /\ eval_data # None

\* C1: whatever the family, with a default configuration or one loaded from
\* a file, and whatever input_dim the file gives, the configuration handed
\* to the encoder constructor, to the decoder constructor and to the model
\* constructor has input_dim equal to train_data.shape[1:].
C1_InputDimIsDataShape ==
    /\ encoder # None => encoder.model_config.input_dim = Tail(train_data.shape)
    /\ decoder # None => decoder.model_config.input_dim = Tail(train_data.shape)
    /\ model # None => model.model_config.input_dim = Tail(train_data.shape)

\* A model built from a file whose input_dim differs from the data's shape.
C1_Witness ==
    /\ model # None
    /\ argv.model_config # NoPath
    /\ fs.model_config.input_dim # NoDim
    /\ fs.model_config.input_dim # Tail(fs.train.shape)

\* C2: the model is built with the encoder of the family's compatibility
\* class from the selected dataset's registry entry (autoencoding encoder
\* for ae and wae, variational encoder for the other five) and that
\* dataset's decoder, encoder and decoder both built from the configuration
\* given to the model.
C2_RegistryEntry(dataset) ==
    CASE dataset = "mnist" ->
           <<"Encoder_AE_MNIST", "Encoder_VAE_MNIST", "Decoder_AE_MNIST">>
      [] dataset = "cifar10" ->
           <<"Encoder_AE_CIFAR", "Encoder_VAE_CIFAR", "Decoder_AE_CIFAR">>
      [] dataset = "celeba" ->
           <<"Encoder_AE_CELEBA", "Encoder_VAE_CELEBA", "Decoder_AE_CELEBA">>

C2_AssembledFromRegistry ==
    model # None =>
        LET entry == C2_RegistryEntry(argv.dataset)
        IN /\ argv.model_name \in {"ae", "wae"} => model.encoder.class = entry[1]
           /\ argv.model_name \in {"vae", "beta_vae", "vamp", "hvae", "rhvae"} =>
                  model.encoder.class = entry[2]
           /\ model.decoder.class = entry[3]
           /\ model.encoder.model_config = model.model_config
           /\ model.decoder.model_config = model.model_config

C2_Witness ==
    model # None /\ argv.model_name = "wae" /\ argv.dataset = "celeba"

\* C3: when the train or the eval array does not load, the run ends with an
\* error that carries the underlying cause and names the dataset's folder
\* and both expected files, and no configuration, encoder, decoder, model or
\* pipeline exists and the pipeline has not been called.
C3_DataLoadFailure ==
    (/\ argv.dataset \in DatasetChoices
     /\ fs.train.kind # "array" \/ fs.eval.kind # "array"
     /\ pc \notin BeforeLoaded)
    => /\ pc = "failed"
       /\ error.stage = "load_data"
       /\ error.cause = (IF fs.train.kind # "array" THEN LoadFailure(fs.train)
                                                   ELSE LoadFailure(fs.eval))
       /\ error.folder = <<"data", argv.dataset>>
       /\ {"train_data.npz", "eval_data.npz"} \subseteq error.files
       /\ model_config = None /\ encoder = None /\ decoder = None
       /\ model = None /\ pipeline = None /\ calls = <<>>

C3_Witness ==
    /\ pc = "failed"
    /\ error.stage = "load_data"
    /\ fs.train.kind = "array"
    /\ fs.eval.kind = "nokey"

\* C4: for a supported dataset the selection binds all three constructors;
\* for a token outside the three the run fails at argument parsing, naming
\* the token, and no file is ever opened.
C4_RegistryClosed ==
    /\ (argv.dataset \in {"mnist", "cifar10", "celeba"}
        /\ pc \notin {"parse_args", "select"}) => RegistrySelected
    /\ argv.dataset \notin {"mnist", "cifar10", "celeba"} =>
           /\ pc \in {"parse_args", "failed"}
           /\ reads = <<>> /\ train_data = None /\ eval_data = None
           /\ pc = "failed" => /\ error.stage = "parse_args"
                               /\ argv.dataset \in error.files

C4_Witness ==
    pc = "failed" /\ argv.dataset = "svhn" /\ error.stage = "parse_args"

\* C5: the pipeline is called at most once, and only when data loading,
\* selection, configuration resolution, assembly and the loading of the
\* training configuration have all succeeded; a failure of any of them ends
\* the run with that failure and without a call.
C5_NoPartialRun ==
    /\ Len(calls) <= 1
    /\ calls # <<>> =>
           /\ argv.dataset \in DatasetChoices
           /\ fs.train.kind = "array" /\ fs.eval.kind = "array"
           /\ argv.model_config # NoPath => fs.model_config.kind = "valid"
           /\ fs.training_config.kind = "valid"
           /\ DataLoaded /\ RegistrySelected
           /\ model_config # None /\ model # None /\ training_config # None
           /\ calls[1].pipeline = [training_config |-> training_config,
                                   model |-> model]
    /\ (error # None /\ error.stage # "invoke") => (pc = "failed" /\ calls = <<>>)
    /\ pc = "failed" => error # None

\* A run that built its model and then failed on the training configuration.
C5_Witness ==
    pc = "failed" /\ error.stage = "training_config" /\ model # None

C7_PipelineShapesAgree ==
    calls # <<>> =>
        /\ Tail(calls[1].train_data.shape) = Tail(calls[1].eval_data.shape)
        /\ Tail(calls[1].train_data.shape) =
               calls[1].pipeline.model.model_config.input_dim

\* C7 (amended): whenever the pipeline is called, the per-sample shape of
\* the train array is the model's input_dim; the eval array is handed over
\* with the shape it was stored with, never compared with the train array's.
C7_TrainShapeIsInputDim ==
    calls # <<>> =>
        /\ Tail(calls[1].train_data.shape) =
               calls[1].pipeline.model.model_config.input_dim
        /\ calls[1].train_data.shape = fs.train.shape
        /\ calls[1].eval_data.shape = fs.eval.shape

\* The pipeline called with an eval array of another per-sample shape.
C7_Witness ==
    /\ calls # <<>>
    /\ Tail(calls[1].train_data.shape) # Tail(calls[1].eval_data.shape)

\* C8: every value of the train and of the eval array is the raw value
\* divided by 255: raw values in [0,255] land in [0,1], a raw value above
\* 255 lands above 1, a negative one below 0; such data is neither rejected
\* nor clamped and reaches the pipeline as it is.
C8_Normalized(raw, a) ==
    /\ a.shape = raw.shape
    /\ Len(a.data) = Len(raw.data)
    /\ \A i \in 1..Len(raw.data) :
         LET r == raw.data[i]
             x == a.data[i]
         IN /\ FracEq(x, <<r, 255>>)
            /\ (0 <= r /\ r <= 255) => (FracLeq(<<0, 1>>, x) /\ FracLeq(x, <<1, 1>>))
            /\ r > 255 => FracLess(<<1, 1>>, x)
            /\ r < 0 => FracLess(x, <<0, 1>>)

C8_DivisionBy255 ==
    /\ train_data # None => C8_Normalized(fs.train, train_data)
    /\ eval_data # None => C8_Normalized(fs.eval, eval_data)
    /\ (pc = "failed" /\ error.stage = "load_data") =>
           (fs.train.kind # "array" \/ fs.eval.kind # "array")
    /\ calls # <<>> => /\ C8_Normalized(fs.train, calls[1].train_data)
                       /\ C8_Normalized(fs.eval, calls[1].eval_data)

\* The pipeline called with a train value above 255 and a negative eval value.
C8_Witness ==
    /\ calls # <<>>
    /\ \E i \in 1..Len(fs.train.data) : fs.train.data[i] > 255
    /\ \E i \in 1..Len(fs.eval.data) : fs.eval.data[i] < 0

\* C9 (as claimed): no run is ended by a reporting step.
C9_ReportingNeverBlocks ==
    pc = "failed" => error.stage \notin {"report_data", "report_params"}

\* C10 (as claimed): data loading, then selection, then resolution, then
\* assembly, then the call; selection never before the data is loaded.
C10_ValidatorBeforeRegistry ==
    /\ (Encoder_AE # None \/ Encoder_VAE # None \/ Decoder_AE # None) => DataLoaded
    /\ model_config # None => RegistrySelected
    /\ (encoder # None \/ decoder # None \/ model # None) => model_config # None
    /\ calls # <<>> => model # None

\* C10 (amended): selection, then data loading, then resolution, then
\* assembly, then the call, each stage only after the one before it.
C10_RegistryBeforeValidator ==
    /\ (reads # <<>> \/ log # <<>> \/ train_data # None \/ eval_data # None)
           => RegistrySelected
    /\ (model_config # None \/ data_input_dim # NoDim) => DataLoaded
    /\ (encoder # None \/ decoder # None \/ model # None) =>
           (model_config # None /\ model_config.input_dim = data_input_dim)
    /\ model # None => (encoder # None /\ decoder # None)
    /\ (training_config # None \/ pipeline # None \/ calls # <<>>) => model # None
    /\ calls # <<>> => pipeline # None

\* Selection done and nothing read yet.
C10_Witness ==
    pc = "load_data" /\ RegistrySelected /\ reads = <<>> /\ train_data = None

====
